---- MODULE Spec2Model ----
(***************************************************************************)
(* ChromatogramList_ABI: the lazily indexed chromatogram catalog over a    *)
(* WIFF file (pwiz_aux/msrc/data/vendor_readers/ABI/ChromatogramList_ABI   *)
(* .cpp).  The catalog is shared by NThreads caller threads; every public  *)
(* operation starts with boost::call_once(indexInitialized_, createIndex). *)
(*                                                                         *)
(* Numbers: m/z values are integers counting 0.0001 m/z (4000000 is 400.0);*)
(* times count 0.01 minute (123 is 1.23); intensities are whole counts.    *)
(* Strings built with ostringstream are tuples of their parts.             *)
(***************************************************************************)
EXTENDS Integers, Sequences, FiniteSets, TLC

\* ------------------------------------------------------------------ bounds
NThreads == 2
MaxSamples == 2
MaxPeriods == 1
MaxExperiments == 2
\* createIndex is entered at most MaxRuns times: the handle fails at most
\* MaxRuns - 1 constructions of the index.
MaxRuns == 2

Threads == 1..NThreads

\* ------------------------------------------------------- generic helpers
Range(s) == {s[k] : k \in 1..Len(s)}

MinOf(S) == CHOOSE x \in S : \A y \in S : x <= y

\* The keys of a std::map<double,double> in iteration (ascending) order.
RECURSIVE SortedKeys(_)
SortedKeys(S) ==
    IF S = {} THEN <<>>
    ELSE LET m == MinOf(S) IN <<m>> \o SortedKeys(S \ {m})

\* ---------------------------------------------------------- the WIFF file
\* The raw acquisition handle (wifffile_) is an input of the catalog.  A file
\* is described by its hierarchy counts and by the acquisition method that
\* decides what each experiment holds.  The samples of a file are acquired
\* with one method: they have the same periods and experiments, and differ
\* in the data recorded.  The file does not change while the catalog lives.
Methods == {"scan", "mrm", "mixed"}

WiffFiles ==
    {w \in [sampleCount : 1..MaxSamples,
            periodCount : 0..MaxPeriods,
            experimentCount : [1..MaxPeriods -> 0..MaxExperiments],
            method : Methods] :
        \A p \in 1..MaxPeriods : p > w.periodCount => w.experimentCount[p] = 0}

Target(q1, q3, dwell) == [Q1 |-> q1, Q3 |-> q3, dwellTime |-> dwell]

\* The SRM transitions of experiment e under method m.  "mrm" repeats one
\* Q1/Q3 pair; "mixed" has Q1 values that differ only in the seventh digit.
TargetsOf(m, e) ==
    CASE m = "scan" -> <<>>
      [] m = "mrm" -> <<Target(4000000, 2000000, 10), Target(4000000, 2000000, 10)>>
      [] OTHER -> IF e % 2 = 1
                  THEN <<Target(4000000, 2000000, 10), Target(4000001, 3000000, 20)>>
                  ELSE <<>>

\* The total ion current of experiment (s, p, e): times and intensities of
\* equal length, not necessarily ascending.
TICOf(m, s, p, e) ==
    CASE m = "scan" -> [times |-> <<123>>,
                        intensities |-> <<IF e % 2 = 1 THEN 5 ELSE 7>>]
      [] m = "mrm" -> [times |-> <<e + 1, e>>, intensities |-> <<10 * s, p>>]
      [] OTHER -> IF e % 2 = 1
                  THEN [times |-> <<50, 60, 50>>, intensities |-> <<1, 2, 3>>]
                  ELSE [times |-> <<>>, intensities |-> <<>>]

\* The selected ion current of transition t of experiment (s, p, e).
SICOf(m, s, p, e, t) ==
    IF m = "mrm"
    THEN [times |-> <<10, 20>>, intensities |-> <<s + t, p + e>>]
    ELSE IF t = 0
         THEN [times |-> <<10, 20, 30>>, intensities |-> <<s, p, e>>]
         ELSE [times |-> <<>>, intensities |-> <<>>]

getSampleCount(w) == w.sampleCount

getPeriodCount(w, s) == w.periodCount

getExperimentCount(w, s, p) == w.experimentCount[p]

\* An ExperimentPtr: the experiment's coordinates in its file.
getExperiment(w, s, p, e) == [method |-> w.method, sample |-> s, period |-> p, experiment |-> e]

getSRMSize(x) == Len(TargetsOf(x.method, x.experiment))

getSRM(x, t) == TargetsOf(x.method, x.experiment)[t + 1]

getTIC(x) == TICOf(x.method, x.sample, x.period, x.experiment)

getSIC(x, t) == SICOf(x.method, x.sample, x.period, x.experiment, t)

\* One call on the handle: the function called and the coordinates it was
\* called for (0 where the function takes none).
RawCall(call, s, p, e, t) ==
    [call |-> call, sample |-> s, period |-> p, experiment |-> e, transition |-> t]

\* ------------------------------------------------------------------ state
VARIABLES
    wifffile_,          \* the raw acquisition handle the catalog reads
    sample,             \* the sample the catalog is bound to
    index_,             \* vector<IndexEntry>
    idToIndexMap_,      \* map<string, size_t>
    size_,              \* size_t
    indexInitialized_,  \* boost::once_flag: "uninit", "running" or "done"
    pc,                 \* where each caller thread is
    frame,              \* the locals of the running createIndex
    createIndexRuns,    \* how many times createIndex was entered
    ret,                \* the public call that has just ended, and how
    rawCalls,           \* the calls made on wifffile_ by the createIndex in
                        \* progress, or by the call whose outcome is in ret
    held                \* the outcome of an earlier chromatogram call whose
                        \* record a caller still holds

vars == <<wifffile_, sample, index_, idToIndexMap_, size_, indexInitialized_,
          pc, frame, createIndexRuns, ret, rawCalls, held>>

\* IndexEntry(): every member value-initialised.
DefaultIndexEntry ==
    [index |-> 0, id |-> <<>>, chromatogramType |-> "unset",
     q1 |-> 0, q3 |-> 0, sample |-> 0, period |-> 0, experiment |-> 0, transition |-> 0]

\* new Chromatogram.
DefaultChromatogram ==
    [index |-> 0, id |-> <<>>, chromatogramType |-> "unset", defaultArrayLength |-> 0,
     hasArrays |-> FALSE, times |-> <<>>, intensities |-> <<>>,
     precursorTarget |-> 0, productTarget |-> 0, dwellTime |-> 0]

NoFrame == [ii |-> 0, iii |-> 0, iiii |-> 0, periodCount |-> 0, experimentCount |-> 0]

\* No call's outcome: op is "none".  identity and chromatogram hold a record
\* only in the outcome of the operation that returns one.  guard tells how
\* the call got past its call_once line: it "ran" createIndex, it "waited"
\* for the thread that did, or it found the flag "set".
NoRet ==
    [op |-> "none", guard |-> "none", index |-> 0, id |-> <<>>, getBinaryData |-> FALSE,
     outcome |-> "none", badIndex |-> 0, position |-> 0,
     identity |-> <<>>, chromatogram |-> <<>>]

\* The constructor: size_(0), indexInitialized_(BOOST_ONCE_INIT), empty
\* index_ and idToIndexMap_.
Init ==
    /\ wifffile_ \in WiffFiles
    /\ sample \in 1..wifffile_.sampleCount
    /\ index_ = <<>>
    /\ idToIndexMap_ = <<>>
    /\ size_ = 0
    /\ indexInitialized_ = "uninit"
    /\ pc = [t \in Threads |-> "idle"]
    /\ frame = NoFrame
    /\ createIndexRuns = 0
    /\ ret = NoRet
    /\ rawCalls = {}
    /\ held = NoRet

\* No call's outcome is waiting for its caller.  The outcome of a call stays
\* in ret until the caller has taken it; a crash stays for good (a read
\* outside a vector's elements ended the process).
Quiet == ret.op = "none"

\* The caller takes what its call returned or threw.
TakeResult ==
    /\ ~Quiet
    /\ ret.outcome # "crash"
    /\ ret' = NoRet
    /\ rawCalls' = {}
    /\ UNCHANGED <<wifffile_, sample, index_, idToIndexMap_, size_, indexInitialized_,
                   pc, frame, createIndexRuns, held>>

\* The caller of chromatogram(p, b) with a valid p takes the record and keeps
\* it (a ChromatogramPtr lives as long as its holder), to have it at hand
\* when a later call returns.  One record is kept.
KeepResult ==
    /\ ~Quiet
    /\ ret.op = "chromatogram" /\ ret.outcome = "ok" /\ ret.index < size_
    /\ held = NoRet
    /\ held' = ret
    /\ ret' = NoRet
    /\ rawCalls' = {}
    /\ UNCHANGED <<wifffile_, sample, index_, idToIndexMap_, size_, indexInitialized_,
                   pc, frame, createIndexRuns>>

\* The caller of a chromatogram(p, b) that a failing call on the handle ended
\* takes the exception and remembers the call, to repeat it later.
KeepFailure ==
    /\ ~Quiet
    /\ ret.op = "chromatogram" /\ ret.outcome = "rawFailure" /\ ret.index < size_
    /\ held = NoRet
    /\ held' = ret
    /\ ret' = NoRet
    /\ rawCalls' = {}
    /\ UNCHANGED <<wifffile_, sample, index_, idToIndexMap_, size_, indexInitialized_,
                   pc, frame, createIndexRuns>>

\* ------------------------------------------------------------ boost::call_once
\* A thread enters a public operation while the index is not built and
\* stands at the operation's call_once line.  All four public operations
\* start with the same line; the operation's arguments are first used after
\* it, so they are drawn when the body runs.
Call(t) ==
    /\ Quiet
    /\ pc[t] = "idle"
    /\ indexInitialized_ # "done"
    /\ pc' = [pc EXCEPT ![t] = "once"]
    /\ UNCHANGED <<wifffile_, sample, index_, idToIndexMap_, size_, indexInitialized_,
                   frame, createIndexRuns, ret, rawCalls, held>>

\* call_once finds the flag unset: this thread runs createIndex.
CallOnceRun(t) ==
    /\ Quiet
    /\ pc[t] = "once"
    /\ indexInitialized_ = "uninit"
    /\ indexInitialized_' = "running"
    /\ createIndexRuns' = createIndexRuns + 1
    /\ pc' = [pc EXCEPT ![t] = "createIndex"]
    /\ UNCHANGED <<wifffile_, sample, index_, idToIndexMap_, size_, frame, ret,
                   rawCalls, held>>

\* ----------------------------------------------------------------- createIndex
\* operator<<(ostream&, double) at the default precision: six significant
\* digits (values below 1000000 have at most six).
RECURSIVE FormatDouble(_)
FormatDouble(q) == IF q < 1000000 THEN q ELSE 10 * FormatDouble((q + 5) \div 10)

\* The id without the transition number.
SRMIdNoTransition(ie) ==
    <<"SRM SIC Q1=", FormatDouble(ie.q1), " Q3=", FormatDouble(ie.q3), " sample=", ie.sample,
      " period=", ie.period, " experiment=", ie.experiment>>

SRMId(ie) ==
    <<"SRM SIC Q1=", FormatDouble(ie.q1), " Q3=", FormatDouble(ie.q3), " sample=", ie.sample,
      " period=", ie.period, " experiment=", ie.experiment, " transition=", ie.transition>>

\* The entry pushed first; position is index_.size()-1 after the push.
TICEntry(position) ==
    [DefaultIndexEntry EXCEPT !.index = position, !.id = <<"TIC">>,
                              !.chromatogramType = "MS_TIC_chromatogram"]

\* An entry numbered with the size after its push.
SRMEntryCountedFromOne(position, target, s, ii, iii, iiii) ==
    LET ie == [index |-> position + 1, id |-> <<>>, chromatogramType |-> "MS_SRM_chromatogram",
               q1 |-> target.Q1, q3 |-> target.Q3, sample |-> s, period |-> ii,
               experiment |-> iii, transition |-> iiii]
    IN  [ie EXCEPT !.id = SRMId(ie)]

\* An entry whose id leaves the transition out.
SRMEntryShortId(position, target, s, ii, iii, iiii) ==
    LET ie == [index |-> position, id |-> <<>>, chromatogramType |-> "MS_SRM_chromatogram",
               q1 |-> target.Q1, q3 |-> target.Q3, sample |-> s, period |-> ii,
               experiment |-> iii, transition |-> iiii]
    IN  [ie EXCEPT !.id = SRMIdNoTransition(ie)]

\* An entry whose transition counts from 1, as its period and experiment do.
SRMEntryTransitionFromOne(position, target, s, ii, iii, iiii) ==
    LET ie == [index |-> position, id |-> <<>>, chromatogramType |-> "MS_SRM_chromatogram",
               q1 |-> target.Q1, q3 |-> target.Q3, sample |-> s, period |-> ii,
               experiment |-> iii, transition |-> iiii + 1]
    IN  [ie EXCEPT !.id = SRMId(ie)]

\* The entry pushed for transition iiii of experiment (s, ii, iii).
SRMEntry(position, target, s, ii, iii, iiii) ==
    LET ie == [index |-> position, id |-> <<>>, chromatogramType |-> "MS_SRM_chromatogram",
               q1 |-> target.Q1, q3 |-> target.Q3, sample |-> s, period |-> ii,
               experiment |-> iii, transition |-> iiii]
    IN  [ie EXCEPT !.id = SRMId(ie)]

\* Lines 200-208: push the TIC entry, read the period count.
CreateIndexTIC(t) ==
    /\ Quiet
    /\ pc[t] = "createIndex"
    /\ index_' = Append(index_, TICEntry(Len(index_)))
    /\ frame' = [NoFrame EXCEPT !.periodCount = getPeriodCount(wifffile_, sample), !.ii = 1]
    /\ pc' = [pc EXCEPT ![t] = "period"]
    /\ rawCalls' = rawCalls \cup {RawCall("getPeriodCount", sample, 0, 0, 0)}
    /\ UNCHANGED <<wifffile_, sample, idToIndexMap_, size_, indexInitialized_,
                   createIndexRuns, ret, held>>

\* Lines 209-214: the period loop's test, and the experiment count.
CreateIndexPeriod(t) ==
    /\ Quiet
    /\ pc[t] = "period"
    /\ IF frame.ii <= frame.periodCount
       THEN /\ frame' = [frame EXCEPT
                           !.experimentCount = getExperimentCount(wifffile_, sample, frame.ii),
                           !.iii = 1]
            /\ pc' = [pc EXCEPT ![t] = "experiment"]
            /\ rawCalls' = rawCalls
                              \cup {RawCall("getExperimentCount", sample, frame.ii, 0, 0)}
       ELSE /\ frame' = frame
            /\ pc' = [pc EXCEPT ![t] = "end"]
            /\ rawCalls' = rawCalls
    /\ UNCHANGED <<wifffile_, sample, index_, idToIndexMap_, size_, indexInitialized_,
                   createIndexRuns, ret, held>>

\* The experiment loop with the test iii < experimentCount.
CreateIndexExperimentSkipLast(t) ==
    /\ Quiet
    /\ pc[t] = "experiment"
    /\ IF frame.iii < frame.experimentCount
       THEN /\ frame' = [frame EXCEPT !.iiii = 0]
            /\ pc' = [pc EXCEPT ![t] = "transition"]
            /\ rawCalls' = rawCalls
                              \cup {RawCall("getExperiment", sample, frame.ii, frame.iii, 0)}
       ELSE /\ frame' = [frame EXCEPT !.ii = @ + 1]
            /\ pc' = [pc EXCEPT ![t] = "period"]
            /\ rawCalls' = rawCalls
    /\ UNCHANGED <<wifffile_, sample, index_, idToIndexMap_, size_, indexInitialized_,
                   createIndexRuns, ret, held>>

\* Lines 214-218: the experiment loop's test; at its end, ++ii.
CreateIndexExperiment(t) ==
    /\ Quiet
    /\ pc[t] = "experiment"
    /\ IF frame.iii <= frame.experimentCount
       THEN /\ frame' = [frame EXCEPT !.iiii = 0]
            /\ pc' = [pc EXCEPT ![t] = "transition"]
            /\ rawCalls' = rawCalls
                              \cup {RawCall("getExperiment", sample, frame.ii, frame.iii, 0)}
       ELSE /\ frame' = [frame EXCEPT !.ii = @ + 1]
            /\ pc' = [pc EXCEPT ![t] = "period"]
            /\ rawCalls' = rawCalls
    /\ UNCHANGED <<wifffile_, sample, index_, idToIndexMap_, size_, indexInitialized_,
                   createIndexRuns, ret, held>>

\* Lines 218-241: the transition loop; one entry per pass; at its end, ++iii.
CreateIndexTransition(t) ==
    /\ Quiet
    /\ pc[t] = "transition"
    /\ LET msExperiment == getExperiment(wifffile_, sample, frame.ii, frame.iii)
       IN  IF frame.iiii < getSRMSize(msExperiment)
           THEN /\ index_' = Append(index_,
                                    SRMEntry(Len(index_), getSRM(msExperiment, frame.iiii),
                                             sample, frame.ii, frame.iii, frame.iiii))
                /\ frame' = [frame EXCEPT !.iiii = @ + 1]
                /\ pc' = pc
                /\ rawCalls' = rawCalls
                      \cup {RawCall("getSRMSize", sample, frame.ii, frame.iii, 0),
                            RawCall("getSRM", sample, frame.ii, frame.iii, frame.iiii)}
           ELSE /\ index_' = index_
                /\ frame' = [frame EXCEPT !.iii = @ + 1]
                /\ pc' = [pc EXCEPT ![t] = "experiment"]
                /\ rawCalls' = rawCalls
                      \cup {RawCall("getSRMSize", sample, frame.ii, frame.iii, 0)}
    /\ UNCHANGED <<wifffile_, sample, idToIndexMap_, size_, indexInitialized_,
                   createIndexRuns, ret, held>>

\* createIndex returning without the once flag being set.
CreateIndexEndFlagUnset(t) ==
    /\ Quiet
    /\ pc[t] = "end"
    /\ size_' = Len(index_)
    /\ frame' = NoFrame
    /\ indexInitialized_' = "uninit"
    /\ pc' = [pc EXCEPT ![t] = "body"]
    /\ rawCalls' = {}
    /\ UNCHANGED <<wifffile_, sample, index_, idToIndexMap_, createIndexRuns, ret, held>>

\* Line 245, and call_once marking the flag as the function returns.
CreateIndexEnd(t) ==
    /\ Quiet
    /\ pc[t] = "end"
    /\ size_' = Len(index_)
    /\ frame' = NoFrame
    /\ indexInitialized_' = "done"
    /\ pc' = [pc EXCEPT ![t] = "body"]
    /\ rawCalls' = {}
    /\ UNCHANGED <<wifffile_, sample, index_, idToIndexMap_, createIndexRuns, ret, held>>

\* A once guard that does not reset its flag when the function throws.
CreateIndexThrowFlagStuck(t) ==
    /\ Quiet
    /\ createIndexRuns < MaxRuns
    /\ \/ /\ pc[t] = "createIndex"
          /\ index_' = Append(index_, TICEntry(Len(index_)))
       \/ /\ \/ pc[t] = "period" /\ frame.ii <= frame.periodCount
             \/ pc[t] = "experiment" /\ frame.iii <= frame.experimentCount
             \/ pc[t] = "transition"
          /\ index_' = index_
    /\ frame' = NoFrame
    /\ indexInitialized_' = "running"
    /\ pc' = [pc EXCEPT ![t] = "idle"]
    /\ ret' = [NoRet EXCEPT !.op = "any", !.guard = "ran", !.outcome = "rawFailure"]
    /\ UNCHANGED <<wifffile_, sample, idToIndexMap_, size_, createIndexRuns, rawCalls, held>>

\* A call on the handle throws inside createIndex: getPeriodCount (line 208,
\* after the TIC entry was pushed), getExperimentCount (213), getExperiment
\* (216), getSRMSize or getSRM (218, 220, before the push).  The exception
\* leaves createIndex at once: index_ keeps what was pushed, line 245 is not
\* reached.  call_once resets the flag, wakes the waiting threads and lets
\* the exception through to the caller of the public operation (op "any":
\* it is the same for the four of them).
CreateIndexThrow(t) ==
    /\ Quiet
    /\ createIndexRuns < MaxRuns
    /\ \/ /\ pc[t] = "createIndex"
          /\ index_' = Append(index_, TICEntry(Len(index_)))
       \/ /\ \/ pc[t] = "period" /\ frame.ii <= frame.periodCount
             \/ pc[t] = "experiment" /\ frame.iii <= frame.experimentCount
             \/ pc[t] = "transition"
          /\ index_' = index_
    /\ frame' = NoFrame
    /\ indexInitialized_' = "uninit"
    /\ pc' = [pc EXCEPT ![t] = "idle"]
    /\ ret' = [NoRet EXCEPT !.op = "any", !.guard = "ran", !.outcome = "rawFailure"]
    /\ UNCHANGED <<wifffile_, sample, idToIndexMap_, size_, createIndexRuns, rawCalls, held>>

\* ---------------------------------------------------------- public operations
\* A guard that lets a caller through as soon as construction has begun.
PastGuardUnguarded(t) ==
    /\ Quiet
    /\ \/ pc[t] = "body"
       \/ pc[t] \in {"idle", "once"} /\ indexInitialized_ # "uninit"

\* call_once has returned to caller t: t ran createIndex itself, or it waited
\* at the call_once line until the flag was set, or it enters with the flag
\* already set (call_once then returns at once).
PastGuard(t) ==
    /\ Quiet
    /\ \/ pc[t] = "body"
       \/ pc[t] \in {"idle", "once"} /\ indexInitialized_ = "done"

\* What reading index_[index] with index == index_.size() can yield: that
\* element does not exist, so the bytes are whatever the allocation holds.
GarbageEntries ==
    {DefaultIndexEntry,
     [DefaultIndexEntry EXCEPT !.id = <<"garbage">>, !.chromatogramType = "MS_TIC_chromatogram"]}

\* index_[index]: the entries index_ can hand out for a position.
EntriesAt(index) ==
    IF index < Len(index_) THEN {index_[index + 1]} ELSE GarbageEntries

Returned(t, r) ==
    /\ ret' = [r EXCEPT !.guard = CASE pc[t] = "body" -> "ran"
                                   [] pc[t] = "once" -> "waited"
                                   [] OTHER -> "set"]
    /\ pc' = [pc EXCEPT ![t] = "idle"]

Crashed(t, r) == Returned(t, [r EXCEPT !.outcome = "crash"])

\* Lines 62-66.
size(t) ==
    /\ PastGuard(t)
    /\ Returned(t, [NoRet EXCEPT !.op = "size", !.outcome = "ok", !.position = size_])
    /\ rawCalls' = {}
    /\ UNCHANGED <<wifffile_, sample, index_, idToIndexMap_, size_, indexInitialized_,
                   frame, createIndexRuns, held>>

\* Lines 69-76.
chromatogramIdentity(t) ==
    /\ PastGuard(t)
    /\ \E index \in 0..(size_ + 1) :
         LET call == [NoRet EXCEPT !.op = "chromatogramIdentity", !.index = index]
         IN  IF index > size_
             THEN Returned(t, [call EXCEPT !.outcome = "error", !.badIndex = index])
             ELSE \/ \E ie \in EntriesAt(index) :
                       Returned(t, [call EXCEPT !.outcome = "ok", !.identity = ie])
                  \/ (index >= Len(index_) /\ Crashed(t, call))
    /\ rawCalls' = {}
    /\ UNCHANGED <<wifffile_, sample, index_, idToIndexMap_, size_, indexInitialized_,
                   frame, createIndexRuns, held>>

\* The ids callers look up: every id in the index, and three that are in none.
IdsToFind ==
    {ie.id : ie \in Range(index_)}
        \cup {<<"TIC">>, <<"absent">>,
              SRMId([DefaultIndexEntry EXCEPT !.q1 = 4000000, !.q3 = 2000000, !.sample = sample])}

\* A lookup that answers a miss with position 0.
FindPositionMissIsZero(map, id, notFound) ==
    IF id \in DOMAIN map THEN map[id] ELSE 0

\* Lines 83-86.
FindPosition(map, id, notFound) ==
    IF id \in DOMAIN map THEN map[id] ELSE notFound

\* A lookup through map::operator[], which inserts the key it misses.
findInserting(t) ==
    /\ PastGuard(t)
    /\ \E id \in IdsToFind :
         /\ idToIndexMap_' = IF id \in DOMAIN idToIndexMap_ THEN idToIndexMap_
                             ELSE (id :> 0) @@ idToIndexMap_
         /\ Returned(t, [NoRet EXCEPT !.op = "find", !.id = id, !.outcome = "ok",
                                      !.position = FindPosition(idToIndexMap_', id, size_)])
    /\ rawCalls' = {}
    /\ UNCHANGED <<wifffile_, sample, index_, size_, indexInitialized_,
                   frame, createIndexRuns, held>>

\* Lines 79-87.
find(t) ==
    /\ PastGuard(t)
    /\ \E id \in IdsToFind :
         Returned(t, [NoRet EXCEPT !.op = "find", !.id = id, !.outcome = "ok",
                                   !.position = FindPosition(idToIndexMap_, id, size_)])
    /\ rawCalls' = {}
    /\ UNCHANGED <<wifffile_, sample, index_, idToIndexMap_, size_, indexInitialized_,
                   frame, createIndexRuns, held>>

\* ------------------------------------------------------------- chromatogram
\* fullFileTIC[time] = intensity: the last intensity at a time wins.
MapPut(m, time, intensity) ==
    IF time \in DOMAIN m THEN [m EXCEPT ![time] = intensity] ELSE (time :> intensity) @@ m

\* Line 132, fullFileTIC[time] += intensity: a missing key starts at 0.
MapAdd(m, time, intensity) ==
    IF time \in DOMAIN m THEN [m EXCEPT ![time] = @ + intensity] ELSE (time :> intensity) @@ m

\* Lines 131-132: the loop over one experiment's points, from point k.
RECURSIVE AddPoints(_, _, _, _)
AddPoints(m, times, intensities, k) ==
    IF k > Len(intensities) THEN m
    ELSE AddPoints(MapAdd(m, times[k], intensities[k]), times, intensities, k + 1)

\* Lines 123-133: the experiments of period ii of sample i, from iii.
RECURSIVE TICExperimentLoop(_, _, _, _, _)
TICExperimentLoop(m, w, i, ii, iii) ==
    IF iii > getExperimentCount(w, i, ii) THEN m
    ELSE LET tic == getTIC(getExperiment(w, i, ii, iii))
         IN  TICExperimentLoop(AddPoints(m, tic.times, tic.intensities, 1), w, i, ii, iii + 1)

\* Lines 118-134: the periods of sample i, from ii.
RECURSIVE TICPeriodLoop(_, _, _, _)
TICPeriodLoop(m, w, i, ii) ==
    IF ii > getPeriodCount(w, i) THEN m
    ELSE TICPeriodLoop(TICExperimentLoop(m, w, i, ii, 1), w, i, ii + 1)

\* The sample loop adding only the sample the catalog is bound to.
RECURSIVE TICSampleLoopBoundOnly(_, _, _)
TICSampleLoopBoundOnly(m, w, i) ==
    IF i > getSampleCount(w) THEN m
    ELSE TICSampleLoopBoundOnly(IF i = sample THEN TICPeriodLoop(m, w, i, 1) ELSE m, w, i + 1)

\* Lines 114-135: the samples of the file, from i.
RECURSIVE TICSampleLoop(_, _, _)
TICSampleLoop(m, w, i) ==
    IF i > getSampleCount(w) THEN m
    ELSE TICSampleLoop(TICPeriodLoop(m, w, i, 1), w, i + 1)

\* Lines 112-135: the time -> intensity map over every experiment of the file.
FullFileTIC(w) == TICSampleLoop(<<>>, w, 1)

\* Lines 137-155.
TICChromatogram(result, w, getBinaryData) ==
    LET fullFileTIC == FullFileTIC(w)
        keys == SortedKeys(DOMAIN fullFileTIC)
    IN  [result EXCEPT
            !.hasArrays = TRUE,
            !.times = IF getBinaryData THEN keys ELSE <<>>,
            !.intensities = IF getBinaryData
                            THEN [k \in 1..Len(keys) |-> fullFileTIC[keys[k]]]
                            ELSE <<>>,
            !.defaultArrayLength = Cardinality(DOMAIN fullFileTIC)]

\* The SRM case with defaultArrayLength read after the swap emptied times.
SRMChromatogramLengthAfterSwap(result, w, ie, getBinaryData) ==
    LET experiment == getExperiment(w, ie.sample, ie.period, ie.experiment)
        target == getSRM(experiment, ie.transition)
        sic == getSIC(experiment, ie.transition)
    IN  [result EXCEPT
            !.dwellTime = target.dwellTime,
            !.precursorTarget = ie.q1,
            !.productTarget = ie.q3,
            !.hasArrays = TRUE,
            !.defaultArrayLength = IF getBinaryData THEN 0 ELSE Len(sic.times),
            !.times = IF getBinaryData THEN sic.times ELSE <<>>,
            !.intensities = IF getBinaryData THEN sic.intensities ELSE <<>>]

\* Lines 161-189.
SRMChromatogram(result, w, ie, getBinaryData) ==
    LET experiment == getExperiment(w, ie.sample, ie.period, ie.experiment)
        target == getSRM(experiment, ie.transition)
        sic == getSIC(experiment, ie.transition)
    IN  [result EXCEPT
            !.dwellTime = target.dwellTime,
            !.precursorTarget = ie.q1,
            !.productTarget = ie.q3,
            !.hasArrays = TRUE,
            !.defaultArrayLength = Len(sic.times),
            !.times = IF getBinaryData THEN sic.times ELSE <<>>,
            !.intensities = IF getBinaryData THEN sic.intensities ELSE <<>>]

\* Lines 99-194: the record built from entry ie for position index.
MakeChromatogram(w, ie, index, getBinaryData) ==
    LET result == [DefaultChromatogram EXCEPT !.index = index, !.id = ie.id,
                                              !.chromatogramType = ie.chromatogramType]
    IN  CASE ie.chromatogramType = "MS_TIC_chromatogram" ->
                TICChromatogram(result, w, getBinaryData)
          [] ie.chromatogramType = "MS_SRM_chromatogram" ->
                SRMChromatogram(result, w, ie, getBinaryData)
          [] OTHER -> result

\* Lines 114-130: the calls the TIC case makes on the handle, one getTIC per
\* experiment of every sample.
TICRawCalls(w) ==
    {RawCall("getSampleCount", 0, 0, 0, 0)}
        \cup {RawCall("getPeriodCount", i, 0, 0, 0) : i \in 1..getSampleCount(w)}
        \cup UNION {{RawCall("getExperimentCount", i, ii, 0, 0) :
                        ii \in 1..getPeriodCount(w, i)} : i \in 1..getSampleCount(w)}
        \cup UNION {UNION {UNION {{RawCall("getExperiment", i, ii, iii, 0),
                                   RawCall("getTIC", i, ii, iii, 0)} :
                                     iii \in 1..getExperimentCount(w, i, ii)} :
                              ii \in 1..getPeriodCount(w, i)} :
                       i \in 1..getSampleCount(w)}

\* Lines 161, 163, 180: the calls the SRM case makes on the handle.
SRMRawCalls(ie) ==
    {RawCall("getExperiment", ie.sample, ie.period, ie.experiment, 0),
     RawCall("getSRM", ie.sample, ie.period, ie.experiment, ie.transition),
     RawCall("getSIC", ie.sample, ie.period, ie.experiment, ie.transition)}

\* Lines 108-192: the calls made on the handle for entry ie.
ChromatogramRawCalls(w, ie) ==
    CASE ie.chromatogramType = "MS_TIC_chromatogram" -> TICRawCalls(w)
      [] ie.chromatogramType = "MS_SRM_chromatogram" -> SRMRawCalls(ie)
      [] OTHER -> {}

\* chromatogram moving the id out of the entry (ie is a non-const reference
\* into the mutable index_) instead of copying it.
chromatogramMovingId(t) ==
    /\ PastGuard(t)
    /\ \E index \in 0..(size_ + 1), getBinaryData \in BOOLEAN :
         LET call == [NoRet EXCEPT !.op = "chromatogram", !.index = index,
                                   !.getBinaryData = getBinaryData]
         IN  IF index > size_
             THEN /\ Returned(t, [call EXCEPT !.outcome = "error", !.badIndex = index])
                  /\ rawCalls' = {}
                  /\ index_' = index_
             ELSE \/ \E ie \in EntriesAt(index) :
                       /\ Returned(t, [call EXCEPT
                             !.outcome = "ok",
                             !.chromatogram =
                                 MakeChromatogram(wifffile_, ie, index, getBinaryData)])
                       /\ rawCalls' = ChromatogramRawCalls(wifffile_, ie)
                       /\ index_' = IF index < Len(index_)
                                    THEN [index_ EXCEPT ![index + 1].id = <<>>]
                                    ELSE index_
                  \/ (/\ index >= Len(index_) /\ Crashed(t, call)
                      /\ rawCalls' = {} /\ index_' = index_)
    /\ UNCHANGED <<wifffile_, sample, idToIndexMap_, size_, indexInitialized_,
                   frame, createIndexRuns, held>>

\* Lines 90-195.
chromatogram(t) ==
    /\ PastGuard(t)
    /\ \E index \in 0..(size_ + 1), getBinaryData \in BOOLEAN :
         LET call == [NoRet EXCEPT !.op = "chromatogram", !.index = index,
                                   !.getBinaryData = getBinaryData]
         IN  IF index > size_
             THEN /\ Returned(t, [call EXCEPT !.outcome = "error", !.badIndex = index])
                  /\ rawCalls' = {}
             ELSE \/ \E ie \in EntriesAt(index) :
                       /\ Returned(t, [call EXCEPT
                             !.outcome = "ok",
                             !.chromatogram =
                                 MakeChromatogram(wifffile_, ie, index, getBinaryData)])
                       /\ rawCalls' = ChromatogramRawCalls(wifffile_, ie)
                  \/ (index >= Len(index_) /\ Crashed(t, call) /\ rawCalls' = {})
    /\ UNCHANGED <<wifffile_, sample, index_, idToIndexMap_, size_, indexInitialized_,
                   frame, createIndexRuns, held>>

\* chromatogram catching the exception of a call on the handle and returning
\* the record as far as it was built: index, id and type, no arrays.
chromatogramThrowSwallowed(t) ==
    /\ PastGuard(t)
    /\ \E index \in 0..size_, getBinaryData \in BOOLEAN :
         \E ie \in EntriesAt(index) :
           \E failing \in ChromatogramRawCalls(wifffile_, ie) :
             /\ Returned(t, [NoRet EXCEPT
                   !.op = "chromatogram", !.index = index,
                   !.getBinaryData = getBinaryData, !.outcome = "ok",
                   !.chromatogram = [DefaultChromatogram EXCEPT
                                        !.index = index, !.id = ie.id,
                                        !.chromatogramType = ie.chromatogramType]])
             /\ rawCalls' = {failing}
    /\ UNCHANGED <<wifffile_, sample, index_, idToIndexMap_, size_, indexInitialized_,
                   frame, createIndexRuns, held>>

\* Lines 114-130, 161-180: one of the calls chromatogram makes on the handle
\* throws.  result is a local ChromatogramPtr and fullFileTIC a local map:
\* the exception unwinds both and reaches the caller.
chromatogramThrow(t) ==
    /\ PastGuard(t)
    /\ \E index \in 0..size_, getBinaryData \in BOOLEAN :
         \E ie \in EntriesAt(index) :
           \E failing \in ChromatogramRawCalls(wifffile_, ie) :
             /\ Returned(t, [NoRet EXCEPT !.op = "chromatogram", !.index = index,
                                          !.getBinaryData = getBinaryData,
                                          !.outcome = "rawFailure"])
             /\ rawCalls' = {failing}
    /\ UNCHANGED <<wifffile_, sample, index_, idToIndexMap_, size_, indexInitialized_,
                   frame, createIndexRuns, held>>

\* ------------------------------------------------------------ specification
Next ==
    \/ TakeResult
    \/ \E t \in Threads :
        \/ Call(t)
        \/ CallOnceRun(t)
        \/ CreateIndexTIC(t)
        \/ CreateIndexPeriod(t)
        \/ CreateIndexExperiment(t)
        \/ CreateIndexTransition(t)
        \/ CreateIndexEnd(t)
        \/ size(t)
        \/ chromatogramIdentity(t)
        \/ find(t)
        \/ chromatogram(t)

Spec == Init /\ [][Next]_vars

\* The catalog with callers that keep a record they were given.
NextKeep == Next \/ KeepResult

KeepSpec == Init /\ [][NextKeep]_vars

\* The catalog over a handle whose calls may throw.
NextFail ==
    \/ Next
    \/ \E t \in Threads :
        \/ CreateIndexThrow(t)
        \/ chromatogramThrow(t)

FailSpec == Init /\ [][NextFail]_vars

\* The next step of thread t inside a public operation it has entered: at the
\* call_once line, inside createIndex, or in the operation's body.
Step(t) ==
    /\ pc[t] # "idle"
    /\ \/ CallOnceRun(t)
       \/ CreateIndexTIC(t)
       \/ CreateIndexPeriod(t)
       \/ CreateIndexExperiment(t)
       \/ CreateIndexTransition(t)
       \/ CreateIndexEnd(t)
       \/ CreateIndexThrow(t)
       \/ size(t)
       \/ chromatogramIdentity(t)
       \/ find(t)
       \/ chromatogram(t)
       \/ chromatogramThrow(t)

\* Fair scheduling: a thread inside an operation keeps being scheduled, and
\* every call on the handle returns or throws (each step above is one or the
\* other).  A thread's step waits for Quiet, which other threads' calls make
\* false and true again without end; the threads of the program do not wait
\* for each other's callers, so the fairness is strong.  Callers take their
\* results.  Nothing makes a thread begin a call.
FairSpec ==
    /\ Init /\ [][NextFail]_vars
    /\ WF_vars(TakeResult)
    /\ \A t \in Threads : SF_vars(Step(t))

\* The same, with callers that repeat a chromatogram call that failed.
NextRetry == NextFail \/ KeepFailure

RetrySpec == Init /\ [][NextRetry]_vars

\* ------------------------------------------------------------------ properties
Indexed == indexInitialized_ = "done"

InCreateIndex(t) == pc[t] \in {"createIndex", "period", "experiment", "transition", "end"}

\* The (period, experiment, transition) triples of the bound sample.
BoundTransitions ==
    UNION {{<<p, e, n>> : n \in 0..(getSRMSize(getExperiment(wifffile_, sample, p, e)) - 1)} :
             <<p, e>> \in {x \in (1..MaxPeriods) \X (1..MaxExperiments) :
                             /\ x[1] <= getPeriodCount(wifffile_, sample)
                             /\ x[2] <= getExperimentCount(wifffile_, sample, x[1])}}

\* Every point any experiment of the file reports: <<time, intensity>> tagged
\* with the experiment and the point's place in it.
ReportedPoints ==
    UNION {LET tic == getTIC(getExperiment(wifffile_, x[1], x[2], x[3]))
           IN  {<<x, k, tic.times[k], tic.intensities[k]>> : k \in 1..Len(tic.times)} :
             x \in {y \in (1..MaxSamples) \X (1..MaxPeriods) \X (1..MaxExperiments) :
                      /\ y[1] <= getSampleCount(wifffile_)
                      /\ y[2] <= getPeriodCount(wifffile_, y[1])
                      /\ y[3] <= getExperimentCount(wifffile_, y[1], y[2])}}

RECURSIVE SumIntensities(_)
SumIntensities(points) ==
    IF points = {} THEN 0
    ELSE LET pt == CHOOSE x \in points : TRUE
         IN  pt[4] + SumIntensities(points \ {pt})

\* C1: for every position p outside [0, size()), p == size() included,
\* chromatogramIdentity(p) and chromatogram(p, getBinaryData) fail with the
\* out-of-range error that reports p; neither returns an entry or a record.
C1_OutOfRangeFails ==
    (ret.op \in {"chromatogramIdentity", "chromatogram"} /\ ret.index >= size_)
        => (ret.outcome = "error" /\ ret.badIndex = ret.index)

\* C2: find(chromatogramIdentity(p).id) returns p for every position p in
\* [0, size()): a lookup of an id some entry carries returns that entry's
\* position.
C2_FindRoundTrip ==
    (ret.op = "find" /\ ret.outcome = "ok")
        => \A p \in 0..(size_ - 1) : index_[p + 1].id = ret.id => ret.position = p

C4_FindMissReturnsSize ==
    ret.op = "find"
        => /\ ret.outcome = "ok"
           /\ (\A ie \in Range(index_) : ie.id # ret.id) => ret.position = size_
           /\ ret.position < size_ => \E ie \in Range(index_) : ie.id = ret.id

C4_Witness ==
    /\ ret.op = "find" /\ ret.id = <<"absent">>
    /\ ret.position = size_ /\ size_ > 1

\* C5: once Indexed, the entry stored at each position p in [0, size()) has
\* index == p, and chromatogramIdentity(p) and chromatogram(p, _) return
\* index == p.
C5_EntryIndexIsPosition ==
    Indexed =>
        /\ \A p \in 0..(size_ - 1) : index_[p + 1].index = p
        /\ (ret.op = "chromatogramIdentity" /\ ret.outcome = "ok" /\ ret.index < size_)
              => ret.identity.index = ret.index
        /\ (ret.op = "chromatogram" /\ ret.outcome = "ok" /\ ret.index < size_)
              => ret.chromatogram.index = ret.index

C5_Witness ==
    /\ Indexed
    /\ ret.op = "chromatogramIdentity" /\ ret.outcome = "ok"
    /\ ret.index >= 2 /\ ret.index < size_

C8_IndexFrozen ==
    /\ [][Indexed => UNCHANGED <<index_, idToIndexMap_, size_>>]_vars
    /\ [](ret.op = "size" => ret.position = size_)

\* A failing call on a catalog that was Indexed when the call began.
C8_Witness ==
    /\ Indexed /\ size_ > 1
    /\ ret.guard = "set"
    /\ ret.op = "chromatogram" /\ ret.outcome = "error"

\* C9: chromatogram(0, true) returns, for every time any experiment of the
\* file reports, one point whose intensity is the sum of all intensities
\* reported at that time; no other point; times strictly ascending, the
\* intensities at the matching places.
C9_TICSumsByTime ==
    (ret.op = "chromatogram" /\ ret.outcome = "ok" /\ ret.index = 0 /\ ret.getBinaryData)
        => LET c == ret.chromatogram
           IN  /\ Len(c.times) = Len(c.intensities)
               /\ \A k \in 1..(Len(c.times) - 1) : c.times[k] < c.times[k + 1]
               /\ Range(c.times) = {pt[3] : pt \in ReportedPoints}
               /\ \A k \in 1..Len(c.times) :
                    c.intensities[k] =
                        SumIntensities({pt \in ReportedPoints : pt[3] = c.times[k]})

\* Two experiments report 5 and 7 at time 1.23: one point, 12.
C9_Witness ==
    /\ ret.op = "chromatogram" /\ ret.outcome = "ok" /\ ret.index = 0 /\ ret.getBinaryData
    /\ Cardinality(ReportedPoints) = 2
    /\ ret.chromatogram.times = <<123>>
    /\ ret.chromatogram.intensities = <<12>>

\* C10: for a valid position p of either kind, chromatogram(p, false) returns
\* empty time and intensity arrays and a defaultArrayLength equal to the
\* length of the time array chromatogram(p, true) returns; chromatogram(p,
\* true) returns time and intensity arrays both of length defaultArrayLength.
C10_DefaultArrayLength ==
    (ret.op = "chromatogram" /\ ret.outcome = "ok" /\ ret.index < size_)
        => LET c == ret.chromatogram
               withData == MakeChromatogram(wifffile_, index_[ret.index + 1], ret.index, TRUE)
           IN  IF ret.getBinaryData
               THEN /\ Len(c.times) = c.defaultArrayLength
                    /\ Len(c.intensities) = c.defaultArrayLength
               ELSE /\ c.hasArrays
                    /\ c.times = <<>> /\ c.intensities = <<>>
                    /\ c.defaultArrayLength = Len(withData.times)

C10_Witness ==
    /\ ret.op = "chromatogram" /\ ret.outcome = "ok"
    /\ ret.index >= 1 /\ ret.index < size_
    /\ ~ret.getBinaryData
    /\ ret.chromatogram.defaultArrayLength > 0

\* chromatogram(p, true) has returned a record for a valid position p whose
\* entry is an SRM entry.
SRMRecordReturned ==
    /\ ret.op = "chromatogram" /\ ret.outcome = "ok" /\ ret.getBinaryData
    /\ ret.index >= 1 /\ ret.index < size_
    /\ index_[ret.index + 1].chromatogramType = "MS_SRM_chromatogram"

\* The part of C11 about the record and the handle: every call made on the
\* handle names the (sample, period, experiment) of index_[p], getSRM and
\* getSIC name its transition, getTIC is not called; the arrays are that
\* transition's getSIC arrays as they came; the isolation targets are the
\* transition's Q1 and Q3; the id is the id of index_[p].
C11_SRMRecordOfEntry ==
    SRMRecordReturned
        => LET ie == index_[ret.index + 1]
               x == getExperiment(wifffile_, ie.sample, ie.period, ie.experiment)
               c == ret.chromatogram
           IN  /\ RawCall("getSIC", ie.sample, ie.period, ie.experiment, ie.transition)
                     \in rawCalls
               /\ \A r \in rawCalls :
                     /\ r.call \in {"getExperiment", "getSRM", "getSIC"}
                     /\ r.sample = ie.sample /\ r.period = ie.period
                     /\ r.experiment = ie.experiment
                     /\ r.call \in {"getSRM", "getSIC"} => r.transition = ie.transition
               /\ c.times = getSIC(x, ie.transition).times
               /\ c.intensities = getSIC(x, ie.transition).intensities
               /\ c.precursorTarget = getSRM(x, ie.transition).Q1
               /\ c.productTarget = getSRM(x, ie.transition).Q3
               /\ c.id = ie.id

\* C11: for every position p whose entry is an SRM entry, chromatogram(p,
\* true) reads the handle only for the (sample, period, experiment,
\* transition) of index_[p], returns that transition's time/intensity pair
\* unmerged, has the transition's Q1 as precursor isolation target and its Q3
\* as product isolation target, and carries the id of index_[p], which
\* contains the Q1 and the Q3 value (the second and fourth part of the id).
C11_SRMRecord ==
    /\ C11_SRMRecordOfEntry
    /\ SRMRecordReturned
          => /\ ret.chromatogram.id[2] = ret.chromatogram.precursorTarget
             /\ ret.chromatogram.id[4] = ret.chromatogram.productTarget

\* A chromatogram call with a valid position has returned while a caller
\* holds the record of an earlier call with the same position and flag.
SameCallAgain ==
    /\ held # NoRet
    /\ ret.op = "chromatogram" /\ ret.outcome = "ok" /\ ret.index < size_
    /\ ret.index = held.index /\ ret.getBinaryData = held.getBinaryData

\* C12: two calls chromatogram(p, b) with the same valid position p and the
\* same flag b, with any other public calls between them, return records
\* with identical index, id, type, metadata, defaultArrayLength and arrays.
C12_SameRecordAgain ==
    SameCallAgain => ret.chromatogram = held.chromatogram

\* An SRM record with its arrays returned a second time, to a call that found
\* the catalog Indexed, the first having been returned to the call that
\* built the index.
C12_Witness ==
    /\ SameCallAgain
    /\ held.guard = "ran" /\ ret.guard = "set"
    /\ ret.index >= 1 /\ ret.getBinaryData
    /\ Len(ret.chromatogram.times) > 0

\* <<period, experiment, transition>> of the entry at position p.
TripleAt(p) == <<index_[p + 1].period, index_[p + 1].experiment, index_[p + 1].transition>>

\* Nested-loop order: by period, then experiment, then transition.
TripleBefore(a, b) ==
    \/ a[1] < b[1]
    \/ a[1] = b[1] /\ a[2] < b[2]
    \/ a[1] = b[1] /\ a[2] = b[2] /\ a[3] < b[3]

C14_IndexWellFormed ==
    ret.outcome = "ok"
        => /\ {p \in 0..(Len(index_) - 1) : index_[p + 1].id = <<"TIC">>} = {0}
           /\ \A p \in 0..(Len(index_) - 1) : index_[p + 1].index = p
           /\ \A p, q \in 1..(Len(index_) - 1) :
                 (/\ p # q
                  /\ index_[p + 1].chromatogramType = "MS_SRM_chromatogram"
                  /\ index_[q + 1].chromatogramType = "MS_SRM_chromatogram")
                    => TripleAt(p) # TripleAt(q)
           /\ size_ = Len(index_)

\* The raw extraction calls among the calls made on the handle.
Extractions == {r \in rawCalls : r.call \in {"getTIC", "getSIC"}}

\* The part of C15 that does not speak of the position: no getTIC or getSIC
\* while a thread is inside createIndex, none but from chromatogram, and no
\* call on the handle at all from size(), find() and chromatogramIdentity(p)
\* with p < size() on an Indexed catalog.
C15_ExtractionOnlyInChromatogram ==
    /\ (\E t \in Threads : InCreateIndex(t)) => Extractions = {}
    /\ Extractions # {} => ret.op = "chromatogram"
    /\ (/\ ret.guard = "set"
        /\ \/ ret.op \in {"size", "find"}
           \/ ret.op = "chromatogramIdentity" /\ ret.index < size_)
          => rawCalls = {}

\* C15: getTIC and getSIC are never called during index construction, and
\* only inside chromatogram(p, _) for a valid p (p < size()); once Indexed,
\* size(), find() and chromatogramIdentity() with a valid position make no
\* call on the handle.
C15_ExtractionOnlyForValidPosition ==
    /\ C15_ExtractionOnlyInChromatogram
    /\ Extractions # {} => ret.index < size_

\* The record ret holds is the whole record of the entry at its position:
\* for the TIC entry one point for each time any experiment of any sample
\* reports, with the sum of the intensities reported at that time; for an
\* SRM entry the getSIC arrays of its transition; without the arrays when
\* getBinaryData is false, with defaultArrayLength telling their length.
CompleteRecord ==
    LET ie == index_[ret.index + 1]
        c == ret.chromatogram
        sic == getSIC(getExperiment(wifffile_, ie.sample, ie.period, ie.experiment),
                      ie.transition)
        ticTimes == {pt[3] : pt \in ReportedPoints}
    IN  /\ c.index = ret.index /\ c.id = ie.id
        /\ c.chromatogramType = ie.chromatogramType
        /\ IF ie.chromatogramType = "MS_TIC_chromatogram"
           THEN /\ c.defaultArrayLength = Cardinality(ticTimes)
                /\ c.times = IF ret.getBinaryData THEN SortedKeys(ticTimes) ELSE <<>>
                /\ Len(c.intensities) = Len(c.times)
                /\ \A k \in 1..Len(c.times) :
                      c.intensities[k] =
                          SumIntensities({pt \in ReportedPoints : pt[3] = c.times[k]})
           ELSE /\ c.defaultArrayLength = Len(sic.times)
                /\ c.times = IF ret.getBinaryData THEN sic.times ELSE <<>>
                /\ c.intensities = IF ret.getBinaryData THEN sic.intensities ELSE <<>>

\* C16: when a call on the handle fails inside chromatogram(p, _), for the
\* TIC in any experiment of any sample, the caller gets the failure and no
\* record, partial or not; the step changes neither index_ nor size_ (nor
\* the id map and the once flag); and a chromatogram(p, _) that returns,
\* also one that repeats a call that failed, returns the whole record.
C16_RawFailureLeavesNoTrace ==
    /\ []((ret.op = "chromatogram" /\ ret.outcome = "rawFailure")
             => (ret.chromatogram = <<>> /\ rawCalls # {}))
    /\ [][(ret'.op = "chromatogram" /\ ret'.outcome = "rawFailure")
             => UNCHANGED <<index_, size_, idToIndexMap_, indexInitialized_>>]_vars
    /\ []((ret.op = "chromatogram" /\ ret.outcome = "ok" /\ ret.index < size_)
             => CompleteRecord)

\* chromatogram(0, true) failed in a file of two samples, and the same call,
\* made again, has returned the TIC of both.
C16_Witness ==
    /\ held.op = "chromatogram" /\ held.outcome = "rawFailure"
    /\ ret.op = "chromatogram" /\ ret.outcome = "ok"
    /\ ret.index = 0 /\ held.index = 0
    /\ ret.getBinaryData /\ held.getBinaryData
    /\ getSampleCount(wifffile_) = 2
    /\ Len(ret.chromatogram.times) >= 2

\* The TIC record of the file, told from the file alone (ReportedPoints
\* ranges over the experiments of every sample; the bound sample does not
\* occur): what any catalog on this handle is to return at position 0.
TICRecordOfFile(getBinaryData) ==
    LET ticTimes == {pt[3] : pt \in ReportedPoints}
        keys == SortedKeys(ticTimes)
    IN  [index |-> 0, id |-> <<"TIC">>, chromatogramType |-> "MS_TIC_chromatogram",
         defaultArrayLength |-> Cardinality(ticTimes), hasArrays |-> TRUE,
         times |-> IF getBinaryData THEN keys ELSE <<>>,
         intensities |->
             IF getBinaryData
             THEN [k \in 1..Len(keys) |->
                     SumIntensities({pt \in ReportedPoints : pt[3] = keys[k]})]
             ELSE <<>>,
         precursorTarget |-> 0, productTarget |-> 0, dwellTime |-> 0]

\* C17: whichever sample the catalog is bound to, chromatogram(0, b) returns
\* the one TIC record of the file, which aggregates the experiments of every
\* sample, so two catalogs on one handle bound to different samples return
\* identical TIC records; the entries at positions >= 1 are SRM entries of
\* the bound sample alone, and their ids name it.
C17_TICOfWholeFile ==
    /\ (ret.op = "chromatogram" /\ ret.outcome = "ok" /\ ret.index = 0)
          => ret.chromatogram = TICRecordOfFile(ret.getBinaryData)
    /\ Indexed
          => \A p \in 1..(Len(index_) - 1) :
                /\ index_[p + 1].chromatogramType = "MS_SRM_chromatogram"
                /\ index_[p + 1].sample = sample
                /\ index_[p + 1].id[6] = sample

\* A catalog bound to sample 2 of a file of two samples, one experiment each
\* (sample 1 reports 10 and sample 2 reports 20 at time 0.02, both report 1
\* at time 0.01), has SRM entries and has returned the TIC record of both
\* samples: 2 at 0.01 and 30 at 0.02.
C17_Witness ==
    /\ getSampleCount(wifffile_) = 2 /\ sample = 2
    /\ wifffile_.method = "mrm"
    /\ ret.op = "chromatogram" /\ ret.outcome = "ok" /\ ret.index = 0
    /\ ret.getBinaryData
    /\ size_ = 3
    /\ ret.chromatogram.times = <<1, 2>>
    /\ ret.chromatogram.intensities = <<2, 30>>

\* (s, p, e) is an experiment of the file, and t, if given, one of its
\* transitions.
ExperimentExists(s, p, e) ==
    /\ 1 <= s /\ s <= getSampleCount(wifffile_)
    /\ 1 <= p /\ p <= getPeriodCount(wifffile_, s)
    /\ 1 <= e /\ e <= getExperimentCount(wifffile_, s, p)

TransitionExists(s, p, e, t) ==
    /\ ExperimentExists(s, p, e)
    /\ 0 <= t /\ t < getSRMSize(getExperiment(wifffile_, s, p, e))

\* C18: every SRM entry in index_, at any time, holds the bound sample, a
\* period in 1..getPeriodCount(sample), an experiment in
\* 1..getExperimentCount(sample, period) and a transition in
\* 0..getSRMSize()-1 of that experiment; and the calls chromatogram(p, _)
\* makes on the handle for an SRM position name that experiment and
\* transition, so none that createIndex did not enumerate.
C18_EntryCoordinatesExist ==
    /\ \A k \in 1..Len(index_) :
          index_[k].chromatogramType = "MS_SRM_chromatogram"
            => /\ index_[k].sample = sample
               /\ TransitionExists(index_[k].sample, index_[k].period,
                                    index_[k].experiment, index_[k].transition)
    /\ (/\ ret.op = "chromatogram" /\ ret.index < size_
        /\ index_[ret.index + 1].chromatogramType = "MS_SRM_chromatogram")
          => \A r \in rawCalls :
                /\ r.sample = sample
                /\ ExperimentExists(r.sample, r.period, r.experiment)
                /\ r.call \in {"getSRM", "getSIC"}
                      => TransitionExists(r.sample, r.period, r.experiment, r.transition)

\* chromatogram has returned the record of the last transition of the second
\* experiment, having called getSIC for it.
C18_Witness ==
    /\ ret.op = "chromatogram" /\ ret.outcome = "ok" /\ ret.index < size_
    /\ index_[ret.index + 1].chromatogramType = "MS_SRM_chromatogram"
    /\ index_[ret.index + 1].experiment = 2
    /\ index_[ret.index + 1].transition = 1
    /\ RawCall("getSIC", sample, 1, 2, 1) \in rawCalls

\* C19: under fair scheduling, with calls on the handle that return or throw,
\* every public operation a thread has entered ends: the thread does not
\* stay at the call_once line, inside createIndex or in the body for ever,
\* also when the thread building the index is thrown out of createIndex.
\* (After a crash there is no process left and no thread in it to wait.)
C19_EveryCallEnds ==
    \A t \in Threads :
        (pc[t] # "idle") ~> (pc[t] = "idle" \/ ret.outcome = "crash")

\* size() has returned to a thread that stood at the call_once line, on a
\* catalog whose index was built at the second attempt.
C19_Witness ==
    /\ createIndexRuns = 2
    /\ ret.op = "size" /\ ret.outcome = "ok" /\ ret.guard = "waited"

\* The catalog is Indexed with the complete index of the bound sample, built
\* by one run of createIndex.
CompleteIndexBuiltOnce ==
    /\ Indexed
    /\ createIndexRuns = 1
    /\ size_ = Len(index_)
    /\ size_ = 1 + Cardinality(BoundTransitions)

\* The part of C20 about the calls that do fail: a first call that ran
\* createIndex and then failed the range test leaves the catalog Indexed and
\* complete, and a size() that finds the flag set returns the full count,
\* createIndex having run once.
C20_IndexedAfterOutOfRange ==
    /\ (ret.guard = "ran" /\ ret.outcome = "error")
          => (ret.badIndex = ret.index /\ CompleteIndexBuiltOnce)
    /\ (ret.op = "size" /\ ret.guard = "set")
          => (ret.position = 1 + Cardinality(BoundTransitions) /\ createIndexRuns = 1)

\* C20: when the first public call on an Unindexed catalog is
\* chromatogramIdentity(p) or chromatogram(p, _) with an invalid p (p >=
\* size()), the call runs createIndex, then fails with the out-of-range
\* error; the catalog is left Indexed with the complete index, and the next
\* size() returns the full count without a second run of createIndex.
C20_ValidationAfterConstruction ==
    /\ C20_IndexedAfterOutOfRange
    /\ (/\ ret.guard = "ran"
        /\ ret.op \in {"chromatogramIdentity", "chromatogram"}
        /\ ret.index >= size_)
          => (ret.outcome = "error" /\ ret.badIndex = ret.index /\ CompleteIndexBuiltOnce)

====
